---- MODULE Spec2Model ----
(***************************************************************************)
(* DashLayer backend (src-tauri/src/lib.rs): the three JSON record stores  *)
(* (widgets.json, profiles.json, dependencies.json), the widget-window map *)
(* of AppState and the commands that act on them.  Every command is one    *)
(* action; what the file system and the host windowing layer answer is an  *)
(* input of the action.  The commands whose invocations run side by side   *)
(* on the async runtime are also given step by step, one invocation per    *)
(* task, with the two tokio mutexes of AppState.                           *)
(***************************************************************************)
EXTENDS Integers, Sequences, FiniteSets, TLC

VARIABLES
    widgets_file,       \* content of <config>/widgets.json
    profiles_file,      \* content of <config>/profiles.json
    dependencies_file,  \* content of <config>/dependencies.json
    html_files,         \* the widget ids whose <config>/widgets/<id>.html exists
    windows,            \* the windows the host has built, in creation order
    widget_windows,     \* AppState.widget_windows: widget id -> handle (0: no entry)
    ret,                \* the command that returned last, with its result
    tasks,              \* the invocations in flight: command, position, locals
    locks,              \* who holds the mutex of widget_windows and of system
    system              \* AppState.system: the refresh_all calls the probe has run

vars == <<widgets_file, profiles_file, dependencies_file, html_files,
          windows, widget_windows, ret, tasks, locks, system>>

\* Most windows the host is asked to build in one run of the model.
MaxWindows == 3

------------------------------------------------------------------------------
(* Data structures                                                          *)

WidgetIds == {"w1", "w2"}
DepIds == {"d1", "d2"}
ProfileIds == {"p1", "p2"}
Names == {"a", "b"}

\* struct Widget: id, the content fields (name stands for name/html/css/js and
\* the geometry, which the commands below only copy) and auto_start.
Widget(id, name, auto) == [id |-> id, name |-> name, autoStart |-> auto]

\* struct Dependency: id, the copied fields (name) and cached.
Dependency(id, name, cached) == [id |-> id, name |-> name, cached |-> cached]

\* struct Profile: id, name and the two embedded sequences.
Profile(id, name, ws, ds) ==
    [id |-> id, name |-> name, widgets |-> ws, dependencies |-> ds]

\* serde: a bool is written as the JSON literal true or false.
BoolToJson(b) == IF b THEN "true" ELSE "false"

\* serde_json::to_string_pretty of a Widget: one JSON object, camelCase keys.
WidgetToJson(w) == [id |-> w.id, name |-> w.name, autoStart |-> BoolToJson(w.autoStart)]

\* serde_json::from_str of a Widget object; #[serde(default)] makes an object
\* without the autoStart key decode to auto_start = false.
WidgetFromJson(j) == [id |-> j.id, name |-> j.name, autoStart |-> (j.autoStart = "true")]

\* Vec<Widget> to and from a JSON array, item by item.
WidgetsToJson(ws) == [i \in 1..Len(ws) |-> WidgetToJson(ws[i])]
WidgetsFromJson(js) == [i \in 1..Len(js) |-> WidgetFromJson(js[i])]

DependencyToJson(d) == [id |-> d.id, name |-> d.name, cached |-> BoolToJson(d.cached)]

DependencyFromJson(j) == [id |-> j.id, name |-> j.name, cached |-> (j.cached = "true")]

DependenciesToJson(ds) == [i \in 1..Len(ds) |-> DependencyToJson(ds[i])]
DependenciesFromJson(js) == [i \in 1..Len(js) |-> DependencyFromJson(js[i])]

ProfileToJson(p) ==
    [id |-> p.id, name |-> p.name,
     widgets |-> WidgetsToJson(p.widgets),
     dependencies |-> DependenciesToJson(p.dependencies)]

ProfileFromJson(j) ==
    [id |-> j.id, name |-> j.name,
     widgets |-> WidgetsFromJson(j.widgets),
     dependencies |-> DependenciesFromJson(j.dependencies)]

ProfilesToJson(ps) == [i \in 1..Len(ps) |-> ProfileToJson(ps[i])]
ProfilesFromJson(js) == [i \in 1..Len(js) |-> ProfileFromJson(js[i])]

------------------------------------------------------------------------------
(* Files                                                                    *)

\* A store file: absent, a JSON array of objects, or text serde_json rejects.
AbsentFile == [kind |-> "absent", items |-> <<>>]
MalformedFile == [kind |-> "malformed", items |-> <<>>]
ArrayFile(objects) == [kind |-> "array", items |-> objects]

\* A widgets.json written before autoStart existed: the key is missing.
LegacyWidgetsFile == ArrayFile(<<[id |-> "w1", name |-> "a", autoStart |-> "missing"]>>)

\* What the file system answers to one command: nothing fails, a directory
\* cannot be made (or the config directory is unknown), the read fails, the
\* write fails before it touched the file, or it fails after truncating it.
IoOutcomes == {"ok", "dir_err", "read_err", "write_err", "write_partial"}
WriteErrs == {"write_err", "write_partial"}

\* get_config_dir()? and ensure_directories()?
ensure_directories(io) == io /= "dir_err"

\* serde_json::from_str::<Vec<T>>(&content) for the T of the store.
FromJson(kind, objects) ==
    IF kind = "widgets" THEN WidgetsFromJson(objects)
    ELSE IF kind = "profiles" THEN ProfilesFromJson(objects)
    ELSE DependenciesFromJson(objects)

\* ReadStore with a parse failure taken for an empty store (unwrap_or_default).
ReadStoreLenient(file, io, kind) ==
    IF ~ensure_directories(io) THEN [ok |-> FALSE, items |-> <<>>]
    ELSE IF file.kind = "absent" THEN [ok |-> TRUE, items |-> <<>>]
    ELSE IF io = "read_err" THEN [ok |-> FALSE, items |-> <<>>]
    ELSE IF file.kind /= "array" THEN [ok |-> TRUE, items |-> <<>>]
    ELSE [ok |-> TRUE, items |-> FromJson(kind, file.items)]

\* if file.exists() { read_to_string()?; from_str()? } else { vec![] }
ReadStore(file, io, kind) ==
    IF ~ensure_directories(io) THEN [ok |-> FALSE, items |-> <<>>]
    ELSE IF file.kind = "absent" THEN [ok |-> TRUE, items |-> <<>>]
    ELSE IF io = "read_err" THEN [ok |-> FALSE, items |-> <<>>]
    ELSE IF file.kind /= "array" THEN [ok |-> FALSE, items |-> <<>>]
    ELSE [ok |-> TRUE, items |-> FromJson(kind, file.items)]

\* fs::write(path, to_string_pretty(items)): File::create truncates, then the
\* text is written; a failure leaves the old file or a truncated one.
WriteStore(file, objects, io) ==
    IF io = "write_err" THEN file
    ELSE IF io = "write_partial" THEN MalformedFile
    ELSE ArrayFile(objects)

------------------------------------------------------------------------------
(* Record store                                                             *)

\* items.iter().position(|w| w.id == id): first match, 0 for None.
Position(items, id) ==
    IF \E i \in 1..Len(items) : items[i].id = id
    THEN CHOOSE i \in 1..Len(items) :
            /\ items[i].id = id
            /\ \A k \in 1..(i - 1) : items[k].id /= id
    ELSE 0

\* Upsert that replaces every item whose id matches.
UpsertAll(items, x) ==
    IF \E i \in 1..Len(items) : items[i].id = x.id
    THEN [i \in 1..Len(items) |-> IF items[i].id = x.id THEN x ELSE items[i]]
    ELSE Append(items, x)

\* Upsert that always pushes.
UpsertPush(items, x) == Append(items, x)

\* if let Some(index) = position { items[index] = x } else { items.push(x) }
Upsert(items, x) ==
    LET index == Position(items, x.id)
    IN  IF index > 0 THEN [items EXCEPT ![index] = x] ELSE Append(items, x)

\* Retain that removes the first match only.
RetainFirst(items, id) ==
    LET index == Position(items, id)
    IN  IF index = 0 THEN items
        ELSE SubSeq(items, 1, index - 1) \o SubSeq(items, index + 1, Len(items))

\* items.retain(|w| w.id != id)
Retain(items, id) == SelectSeq(items, LAMBDA w : w.id /= id)

\* What a command leaves for the caller and the checks to see: ok is Ok/Err,
\* id and arg the command's input, val the value returned, close what the host
\* answered when the command asked it to close a window ("none": not asked),
\* n the number of records the command decoded from its store file.
Ret(cmd, ok, id, arg, val, close, n) ==
    [cmd |-> cmd, ok |-> ok, id |-> id, arg |-> arg, val |-> val, close |-> close,
     n |-> n]

WidgetInputs == {Widget("w1", "a", TRUE), Widget("w1", "b", FALSE), Widget("w2", "a", TRUE)}
DependencyInputs == {Dependency("d1", "a", FALSE), Dependency("d1", "b", TRUE),
                     Dependency("d2", "a", FALSE)}

\* Profiles the front end may send; nothing in the commands validates them.
ProfileInputs ==
    {Profile("p1", "a", <<Widget("w1", "a", TRUE), Widget("w2", "a", FALSE)>>,
                        <<Dependency("d1", "a", FALSE)>>),
     Profile("p1", "b", <<Widget("w1", "a", TRUE), Widget("w1", "b", FALSE)>>,
                        <<>>),
     Profile("p2", "a", <<>>,
                        <<Dependency("d2", "a", FALSE), Dependency("d1", "b", TRUE)>>)}

\* A command run as one step is no task and touches neither mutex nor probe.
UNCHANGED_tasks == UNCHANGED <<tasks, locks, system>>

\* A record-store command leaves the window manager alone.
UNCHANGED_windows == UNCHANGED <<html_files, windows, widget_windows>> /\ UNCHANGED_tasks

get_widgets(io) ==
    LET r == ReadStore(widgets_file, io, "widgets")
    IN  /\ ret' = Ret("get_widgets", r.ok, "", <<>>, r.items, "none", Len(r.items))
        /\ UNCHANGED <<widgets_file, profiles_file, dependencies_file>>
        /\ UNCHANGED_windows

save_widget(widget, io) ==
    LET r == ReadStore(widgets_file, io, "widgets")
        widgets == Upsert(r.items, widget)
    IN  /\ widgets_file' = IF r.ok
                           THEN WriteStore(widgets_file, WidgetsToJson(widgets), io)
                           ELSE widgets_file
        /\ ret' = Ret("save_widget", r.ok /\ io \notin WriteErrs, widget.id,
                      <<widget>>, <<>>, "none", Len(r.items))
        /\ UNCHANGED <<profiles_file, dependencies_file>>
        /\ UNCHANGED_windows

get_profiles(io) ==
    LET r == ReadStore(profiles_file, io, "profiles")
    IN  /\ ret' = Ret("get_profiles", r.ok, "", <<>>, r.items, "none", Len(r.items))
        /\ UNCHANGED <<widgets_file, profiles_file, dependencies_file>>
        /\ UNCHANGED_windows

save_profile(profile, io) ==
    LET r == ReadStore(profiles_file, io, "profiles")
        profiles == Upsert(r.items, profile)
    IN  /\ profiles_file' = IF r.ok
                            THEN WriteStore(profiles_file, ProfilesToJson(profiles), io)
                            ELSE profiles_file
        /\ ret' = Ret("save_profile", r.ok /\ io \notin WriteErrs, profile.id,
                      <<profile>>, <<>>, "none", Len(r.items))
        /\ UNCHANGED <<widgets_file, dependencies_file>>
        /\ UNCHANGED_windows

delete_profile(profile_id, io) ==
    LET r == ReadStore(profiles_file, io, "profiles")
        profiles == Retain(r.items, profile_id)
    IN  /\ profiles_file' = IF r.ok
                            THEN WriteStore(profiles_file, ProfilesToJson(profiles), io)
                            ELSE profiles_file
        /\ ret' = Ret("delete_profile", r.ok /\ io \notin WriteErrs, profile_id,
                      <<>>, <<>>, "none", Len(r.items))
        /\ UNCHANGED <<widgets_file, dependencies_file>>
        /\ UNCHANGED_windows

\* What the file system answers to load_profile, which reads nothing and
\* writes two files: the first or the second write may fail.
LoadOutcomes == {"ok", "dir_err", "write_err", "write_partial",
                 "write2_err", "write2_partial"}

\* load_profile that puts the widgets file back when the second write fails.
load_profile_rollback(profile, io) ==
    LET dirs == ensure_directories(io)
        io1 == IF io \in WriteErrs THEN io ELSE "ok"
        io2 == IF io = "write2_err" THEN "write_err"
               ELSE IF io = "write2_partial" THEN "write_partial" ELSE "ok"
        wrote1 == dirs /\ io1 = "ok"
    IN  /\ widgets_file' = IF dirs /\ io2 = "ok"
                           THEN WriteStore(widgets_file,
                                           WidgetsToJson(profile.widgets), io1)
                           ELSE widgets_file
        /\ dependencies_file' = IF wrote1
                                THEN WriteStore(dependencies_file,
                                                DependenciesToJson(profile.dependencies), io2)
                                ELSE dependencies_file
        /\ ret' = Ret("load_profile", io = "ok", profile.id, <<profile>>, <<>>, "none", 0)
        /\ UNCHANGED profiles_file
        /\ UNCHANGED_windows

\* load_profile that keeps the stored widgets and adds the profile's to them.
load_profile_merge(profile, io) ==
    LET stored == ReadStore(widgets_file, "ok", "widgets").items
    IN  /\ io = "ok"
        /\ widgets_file' = ArrayFile(WidgetsToJson(stored \o profile.widgets))
        /\ dependencies_file' = ArrayFile(DependenciesToJson(profile.dependencies))
        /\ ret' = Ret("load_profile", TRUE, profile.id, <<profile>>, <<>>, "none", 0)
        /\ UNCHANGED profiles_file
        /\ UNCHANGED_windows

load_profile(profile, io) ==
    LET dirs == ensure_directories(io)
        io1 == IF io \in WriteErrs THEN io ELSE "ok"
        io2 == IF io = "write2_err" THEN "write_err"
               ELSE IF io = "write2_partial" THEN "write_partial" ELSE "ok"
        wrote1 == dirs /\ io1 = "ok"
    IN  /\ widgets_file' = IF dirs
                           THEN WriteStore(widgets_file,
                                           WidgetsToJson(profile.widgets), io1)
                           ELSE widgets_file
        /\ dependencies_file' = IF wrote1
                                THEN WriteStore(dependencies_file,
                                                DependenciesToJson(profile.dependencies), io2)
                                ELSE dependencies_file
        /\ ret' = Ret("load_profile", io = "ok", profile.id, <<profile>>, <<>>, "none", 0)
        /\ UNCHANGED profiles_file
        /\ UNCHANGED_windows

get_dependencies(io) ==
    LET r == ReadStore(dependencies_file, io, "dependencies")
    IN  /\ ret' = Ret("get_dependencies", r.ok, "", <<>>, r.items, "none", Len(r.items))
        /\ UNCHANGED <<widgets_file, profiles_file, dependencies_file>>
        /\ UNCHANGED_windows

add_dependency(dependency, io) ==
    LET r == ReadStore(dependencies_file, io, "dependencies")
        dependencies == Upsert(r.items, dependency)
    IN  /\ dependencies_file' =
                IF r.ok
                THEN WriteStore(dependencies_file, DependenciesToJson(dependencies), io)
                ELSE dependencies_file
        /\ ret' = Ret("add_dependency", r.ok /\ io \notin WriteErrs, dependency.id,
                      <<dependency>>, <<>>, "none", Len(r.items))
        /\ UNCHANGED <<widgets_file, profiles_file>>
        /\ UNCHANGED_windows

remove_dependency(dependency_id, io) ==
    LET r == ReadStore(dependencies_file, io, "dependencies")
        dependencies == Retain(r.items, dependency_id)
    IN  /\ dependencies_file' =
                IF r.ok
                THEN WriteStore(dependencies_file, DependenciesToJson(dependencies), io)
                ELSE dependencies_file
        /\ ret' = Ret("remove_dependency", r.ok /\ io \notin WriteErrs, dependency_id,
                      <<>>, <<>>, "none", Len(r.items))
        /\ UNCHANGED <<widgets_file, profiles_file>>
        /\ UNCHANGED_windows

------------------------------------------------------------------------------
(* Window manager                                                           *)

\* What WebviewWindow::close() returns; the callers decide what to do with it.
CloseOutcomes == {"ok", "err"}

\* window.close(): Ok closes the window, Err leaves it as it was.
HostClose(wins, handle, c) ==
    IF c = "ok" THEN [wins EXCEPT ![handle].open = FALSE] ELSE wins

\* The host keeps its open windows by label and builds no second one under a
\* label that is in use.
LabelInUse(wins, label) ==
    \E h \in 1..Len(wins) : wins[h].open /\ wins[h].label = label

\* The window labelled with the widget's name, as its title is.
WindowLabelFromName(widget) == widget.name

\* WebviewWindowBuilder::new(&app, &widget.id, url): the label is the widget id.
WindowLabel(widget) == widget.id

\* What the environment answers to create_widget_window after the existing
\* window was closed: every step works, get_config_dir fails, create_dir_all
\* fails, the HTML write fails (before or after truncating), the URL does not
\* parse, or the host fails to build the window.
CreateOutcomes == {"ok", "dir_err", "mkdir_err", "write_err", "write_partial",
                   "url_err", "build_err"}

WindowState(wins, map, html) == [windows |-> wins, widget_windows |-> map, html_files |-> html]

\* CreateWindow that registers the handle with entry().or_insert(), which
\* keeps an entry that is already there.
CreateWindowOrInsert(st, widget, out, c) ==
    LET existing == st.widget_windows[widget.id]
        closed == IF existing /= 0 THEN HostClose(st.windows, existing, c) ELSE st.windows
        html == IF out \in {"dir_err", "mkdir_err", "write_err"} THEN st.html_files
                ELSE st.html_files \cup {widget.id}
        built == out = "ok" /\ ~LabelInUse(closed, WindowLabel(widget))
        window == [id |-> widget.id, label |-> WindowLabel(widget), open |-> TRUE]
        wins == IF built THEN Append(closed, window) ELSE closed
        map == IF built /\ existing = 0
               THEN [st.widget_windows EXCEPT ![widget.id] = Len(wins)]
               ELSE st.widget_windows
    IN  [st |-> WindowState(wins, map, html), ok |-> built,
         close |-> IF existing /= 0 THEN c ELSE "none"]

\* CreateWindow that takes the existing handle out of the map (remove) to
\* close it.
CreateWindowRemove(st, widget, out, c) ==
    LET existing == st.widget_windows[widget.id]
        closed == IF existing /= 0 THEN HostClose(st.windows, existing, c) ELSE st.windows
        html == IF out \in {"dir_err", "mkdir_err", "write_err"} THEN st.html_files
                ELSE st.html_files \cup {widget.id}
        built == out = "ok" /\ ~LabelInUse(closed, WindowLabel(widget))
        window == [id |-> widget.id, label |-> WindowLabel(widget), open |-> TRUE]
        wins == IF built THEN Append(closed, window) ELSE closed
        map == [st.widget_windows EXCEPT ![widget.id] = IF built THEN Len(wins) ELSE 0]
    IN  [st |-> WindowState(wins, map, html), ok |-> built,
         close |-> IF existing /= 0 THEN c ELSE "none"]

\* The body of create_widget_window on the window state st (no command reads
\* a rendered document back, so only the existence of its file is kept, also
\* for a write that failed after creating it): the state it leaves, whether it returned Ok, and what the close of the existing window
\* answered ("none": there was no existing entry).
CreateWindow(st, widget, out, c) ==
    LET existing == st.widget_windows[widget.id]
        closed == IF existing /= 0 THEN HostClose(st.windows, existing, c) ELSE st.windows
        html == IF out \in {"dir_err", "mkdir_err", "write_err"} THEN st.html_files
                ELSE st.html_files \cup {widget.id}
        built == out = "ok" /\ ~LabelInUse(closed, WindowLabel(widget))
        window == [id |-> widget.id, label |-> WindowLabel(widget), open |-> TRUE]
        wins == IF built THEN Append(closed, window) ELSE closed
        map == IF built THEN [st.widget_windows EXCEPT ![widget.id] = Len(wins)]
               ELSE st.widget_windows
    IN  [st |-> WindowState(wins, map, html), ok |-> built,
         close |-> IF existing /= 0 THEN c ELSE "none"]

create_widget_window(widget, out, c) ==
    LET r == CreateWindow(WindowState(windows, widget_windows, html_files), widget, out, c)
    IN  /\ Len(r.st.windows) <= MaxWindows
        /\ windows' = r.st.windows
        /\ widget_windows' = r.st.widget_windows
        /\ html_files' = r.st.html_files
        /\ ret' = Ret("create_widget_window", r.ok, widget.id, <<>>,
                      IF r.ok THEN <<widget.id>> ELSE <<>>, r.close, 0)
        /\ UNCHANGED <<widgets_file, profiles_file, dependencies_file>>
        /\ UNCHANGED_tasks

\* close_widget_window that asks the host first and removes the entry only
\* after the close succeeded.
close_widget_window_close_first(widget_id, c) ==
    LET existing == widget_windows[widget_id]
    IN  /\ widget_windows' = IF existing /= 0 /\ c = "err" THEN widget_windows
                             ELSE [widget_windows EXCEPT ![widget_id] = 0]
        /\ windows' = IF existing /= 0 THEN HostClose(windows, existing, c) ELSE windows
        /\ ret' = Ret("close_widget_window", existing = 0 \/ c = "ok", widget_id,
                      <<>>, <<>>, IF existing /= 0 THEN c ELSE "none", 0)
        /\ UNCHANGED <<widgets_file, profiles_file, dependencies_file, html_files>>
        /\ UNCHANGED_tasks

\* close_widget_window that looks the handle up (get) and leaves the entry.
close_widget_window_get(widget_id, c) ==
    LET existing == widget_windows[widget_id]
    IN  /\ windows' = IF existing /= 0 THEN HostClose(windows, existing, c) ELSE windows
        /\ ret' = Ret("close_widget_window", existing = 0 \/ c = "ok", widget_id,
                      <<>>, <<>>, IF existing /= 0 THEN c ELSE "none", 0)
        /\ UNCHANGED <<widgets_file, profiles_file, dependencies_file, html_files,
                       widget_windows>>
        /\ UNCHANGED_tasks

close_widget_window(widget_id, c) ==
    LET existing == widget_windows[widget_id]
    IN  /\ widget_windows' = [widget_windows EXCEPT ![widget_id] = 0]
        /\ windows' = IF existing /= 0 THEN HostClose(windows, existing, c) ELSE windows
        /\ ret' = Ret("close_widget_window", existing = 0 \/ c = "ok", widget_id,
                      <<>>, <<>>, IF existing /= 0 THEN c ELSE "none", 0)
        /\ UNCHANGED <<widgets_file, profiles_file, dependencies_file, html_files>>
        /\ UNCHANGED_tasks

\* delete_widget that ends with window.close().map_err(..)?: a failed close
\* of the tracked window is the command's error.
delete_widget_close_err(widget_id, io, c) ==
    LET r == ReadStore(widgets_file, io, "widgets")
        widgets == Retain(r.items, widget_id)
        ok == r.ok /\ io \notin WriteErrs
        existing == widget_windows[widget_id]
        closing == ok /\ existing /= 0
    IN  /\ widgets_file' = IF r.ok
                           THEN WriteStore(widgets_file, WidgetsToJson(widgets), io)
                           ELSE widgets_file
        /\ windows' = IF closing THEN HostClose(windows, existing, c) ELSE windows
        /\ ret' = Ret("delete_widget", ok /\ (existing = 0 \/ c = "ok"), widget_id,
                      <<>>, <<>>, IF closing THEN c ELSE "none", Len(r.items))
        /\ UNCHANGED <<profiles_file, dependencies_file, html_files, widget_windows>>
        /\ UNCHANGED_tasks

\* delete_widget that rewrites the file and leaves the window alone.
delete_widget_no_close(widget_id, io, c) ==
    LET r == ReadStore(widgets_file, io, "widgets")
        widgets == Retain(r.items, widget_id)
    IN  /\ widgets_file' = IF r.ok
                           THEN WriteStore(widgets_file, WidgetsToJson(widgets), io)
                           ELSE widgets_file
        /\ ret' = Ret("delete_widget", r.ok /\ io \notin WriteErrs, widget_id,
                      <<>>, <<>>, "none", Len(r.items))
        /\ UNCHANGED <<profiles_file, dependencies_file, html_files, windows,
                       widget_windows>>
        /\ UNCHANGED_tasks

delete_widget(widget_id, io, c) ==
    LET r == ReadStore(widgets_file, io, "widgets")
        widgets == Retain(r.items, widget_id)
        ok == r.ok /\ io \notin WriteErrs
        existing == widget_windows[widget_id]
        closing == ok /\ existing /= 0
    IN  /\ widgets_file' = IF r.ok
                           THEN WriteStore(widgets_file, WidgetsToJson(widgets), io)
                           ELSE widgets_file
        /\ windows' = IF closing THEN HostClose(windows, existing, c) ELSE windows
        /\ ret' = Ret("delete_widget", ok, widget_id, <<>>, <<>>,
                      IF closing THEN c ELSE "none", Len(r.items))
        /\ UNCHANGED <<profiles_file, dependencies_file, html_files, widget_windows>>
        /\ UNCHANGED_tasks

\* What the environment answers to a create_widget_window of the launcher.
LaunchOutcomes == {"ok", "write_err", "build_err"}

\* The widgets the invocations that run side by side are given.
CreateInputs == {Widget("w1", "a", TRUE), Widget("w2", "a", TRUE)}

\* The loop with create_widget_window(..).await? in its body: the first
\* failed open ends it.
RECURSIVE LaunchFromStop(_, _, _, _)
LaunchFromStop(st, auto, outs, i) ==
    IF i > Len(auto) THEN [st |-> st, attempts |-> <<>>]
    ELSE LET r == CreateWindow(st, auto[i], outs[i][1], outs[i][2])
             rest == IF r.ok THEN LaunchFromStop(r.st, auto, outs, i + 1)
                     ELSE [st |-> r.st, attempts |-> <<>>]
         IN  [st |-> rest.st,
              attempts |-> <<[widget |-> auto[i], ok |-> r.ok]>> \o rest.attempts]

\* for widget in widgets.iter().filter(|w| w.auto_start) { let _ = create(..) }
\* from the i-th autostart widget on; outs[i] is what the environment answers
\* to the i-th create_widget_window.  attempts: the widgets
\* create_widget_window was called with, in call order, and whether each
\* call returned Ok.
RECURSIVE LaunchFrom(_, _, _, _)
LaunchFrom(st, auto, outs, i) ==
    IF i > Len(auto) THEN [st |-> st, attempts |-> <<>>]
    ELSE LET r == CreateWindow(st, auto[i], outs[i][1], outs[i][2])
             rest == LaunchFrom(r.st, auto, outs, i + 1)
         IN  [st |-> rest.st,
              attempts |-> <<[widget |-> auto[i], ok |-> r.ok]>> \o rest.attempts]

launch_autostart_widgets(io) ==
    LET loaded == ReadStore(widgets_file, io, "widgets")
        auto == SelectSeq(loaded.items, LAMBDA w : w.autoStart)
    IN  \E outs \in [1..Len(auto) -> LaunchOutcomes \X CloseOutcomes] :
            LET r == LaunchFrom(WindowState(windows, widget_windows, html_files),
                                auto, outs, 1)
            IN  /\ Len(r.st.windows) <= MaxWindows
                /\ windows' = r.st.windows
                /\ widget_windows' = r.st.widget_windows
                /\ html_files' = r.st.html_files
                /\ ret' = Ret("launch_autostart_widgets", loaded.ok, "", <<>>,
                              r.attempts, "none", Len(loaded.items))
                /\ UNCHANGED <<widgets_file, profiles_file, dependencies_file>>
                /\ UNCHANGED_tasks

------------------------------------------------------------------------------
(* Concurrent invocations                                                   *)

\* Tauri spawns every invocation of an async command on the multi-threaded
\* runtime: two invocations run side by side, each at its own position.
Tasks == {"t1", "t2"}

\* A task before its first invocation.  local: the collection the command
\* read; built: the handle of the window it built; close: what the host
\* answered to its close; ok, err, val: Ok/Err, the failed step and the value
\* returned; steps: the probe steps it has run; overlapped: another
\* invocation was in flight at some moment of this one.
IdleTask ==
    [cmd |-> "none", pc |-> "idle", arg |-> <<>>, local |-> <<>>, built |-> 0,
     close |-> "none", ok |-> FALSE, err |-> "", val |-> <<>>, steps |-> <<>>,
     overlapped |-> FALSE]

InFlight(task) == task.pc \notin {"idle", "done"}

\* Where the body of a command starts.
FirstPc(cmd) ==
    IF cmd \in {"save_widget", "add_dependency"} THEN "read"
    ELSE IF cmd \in {"create_widget_window", "close_widget_window"} THEN "lock"
    ELSE IF cmd = "delete_widget" THEN "rewrite"
    ELSE IF cmd = "launch_autostart_widgets" THEN "load"
    ELSE "state"

\* The invocation returns: its locals are dropped, its result stays.
Returned(self, ok, err, val) ==
    [self EXCEPT !.pc = "done", !.ok = ok, !.err = err, !.val = val, !.local = <<>>]

\* The front end invokes a command; the task runs one invocation at a time.
invoke(t, cmd, arg) ==
    LET busy == {u \in Tasks \ {t} : InFlight(tasks[u])}
    IN  /\ ~InFlight(tasks[t])
        /\ tasks' = [u \in Tasks |->
                        IF u = t
                        THEN [IdleTask EXCEPT !.cmd = cmd, !.arg = arg,
                                              !.pc = FirstPc(cmd),
                                              !.overlapped = busy /= {}]
                        ELSE IF u \in busy
                        THEN [tasks[u] EXCEPT !.overlapped = TRUE]
                        ELSE tasks[u]]
        /\ UNCHANGED <<widgets_file, profiles_file, dependencies_file, html_files,
                       windows, widget_windows, ret, locks, system>>

\* save_widget up to the parse of what it read (lines 112-124).
save_widget_read(t, io) ==
    LET self == tasks[t]
        r == ReadStore(widgets_file, io, "widgets")
    IN  /\ self.cmd = "save_widget" /\ self.pc = "read"
        /\ tasks' = [tasks EXCEPT ![t] =
                        IF r.ok THEN [self EXCEPT !.pc = "write", !.local = r.items]
                        ELSE Returned(self, FALSE, "read", <<>>)]
        /\ UNCHANGED <<ret, widgets_file, profiles_file, dependencies_file, html_files,
                       windows, widget_windows, locks, system>>

\* save_widget_write that reads the file again and upserts into what the
\* file holds now.
save_widget_write_reread(t, io) ==
    LET self == tasks[t]
        widgets == Upsert(ReadStore(widgets_file, "ok", "widgets").items, self.arg[1])
    IN  /\ self.cmd = "save_widget" /\ self.pc = "write"
        /\ widgets_file' = WriteStore(widgets_file, WidgetsToJson(widgets), io)
        /\ tasks' = [tasks EXCEPT ![t] = Returned(self, io = "ok", IF io = "ok" THEN "" ELSE "write", <<>>)]
        /\ UNCHANGED <<ret, profiles_file, dependencies_file, html_files,
                       windows, widget_windows, locks, system>>

\* save_widget from the upsert to the write of the file (lines 126-138).
save_widget_write(t, io) ==
    LET self == tasks[t]
        widgets == Upsert(self.local, self.arg[1])
    IN  /\ self.cmd = "save_widget" /\ self.pc = "write"
        /\ widgets_file' = WriteStore(widgets_file, WidgetsToJson(widgets), io)
        /\ tasks' = [tasks EXCEPT ![t] = Returned(self, io = "ok", IF io = "ok" THEN "" ELSE "write", <<>>)]
        /\ UNCHANGED <<ret, profiles_file, dependencies_file, html_files,
                       windows, widget_windows, locks, system>>

\* add_dependency up to the parse of what it read (lines 395-407).
add_dependency_read(t, io) ==
    LET self == tasks[t]
        r == ReadStore(dependencies_file, io, "dependencies")
    IN  /\ self.cmd = "add_dependency" /\ self.pc = "read"
        /\ tasks' = [tasks EXCEPT ![t] =
                        IF r.ok THEN [self EXCEPT !.pc = "write", !.local = r.items]
                        ELSE Returned(self, FALSE, "read", <<>>)]
        /\ UNCHANGED <<ret, widgets_file, profiles_file, dependencies_file, html_files,
                       windows, widget_windows, locks, system>>

\* add_dependency from the upsert to the write of the file (lines 409-421).
add_dependency_write(t, io) ==
    LET self == tasks[t]
        dependencies == Upsert(self.local, self.arg[1])
    IN  /\ self.cmd = "add_dependency" /\ self.pc = "write"
        /\ dependencies_file' = WriteStore(dependencies_file,
                                           DependenciesToJson(dependencies), io)
        /\ tasks' = [tasks EXCEPT ![t] = Returned(self, io = "ok", IF io = "ok" THEN "" ELSE "write", <<>>)]
        /\ UNCHANGED <<ret, widgets_file, profiles_file, html_files,
                       windows, widget_windows, locks, system>>

\* The task is in the body of create_widget_window: invoked by the front
\* end, or called by launch_autostart_widgets for the widget in arg.
InCreate(self) ==
    \/ self.cmd = "create_widget_window"
    \/ self.cmd = "launch_autostart_widgets"
          /\ self.pc \in {"lock", "close", "html", "build", "insert"}

\* create_widget_window returns: to the front end, or to the loop of
\* launch_autostart_widgets, which discards the result (let _ =).
CreateReturned(self, ok, err, val) ==
    IF self.cmd = "launch_autostart_widgets" THEN [self EXCEPT !.pc = "next"]
    ELSE Returned(self, ok, err, val)

\* A lock() that does not wait for the mutex.
create_lock_no_wait(t) ==
    /\ InCreate(tasks[t]) /\ tasks[t].pc = "lock"
    /\ locks' = [locks EXCEPT !.widget_windows = t]
    /\ tasks' = [tasks EXCEPT ![t].pc = "close"]
    /\ UNCHANGED <<widgets_file, profiles_file, dependencies_file, html_files,
                   windows, widget_windows, ret, system>>

\* state.widget_windows.lock().await: the task goes on once the mutex is free
\* and holds it until the command returns (the guard lives to the end of
\* the function).
create_lock(t) ==
    /\ InCreate(tasks[t]) /\ tasks[t].pc = "lock"
    /\ locks.widget_windows = "free"
    /\ locks' = [locks EXCEPT !.widget_windows = t]
    /\ tasks' = [tasks EXCEPT ![t].pc = "close"]
    /\ UNCHANGED <<widgets_file, profiles_file, dependencies_file, html_files,
                   windows, widget_windows, ret, system>>

\* if let Some(existing) = windows.get(&widget.id) { let _ = existing.close(); }
create_close(t, c) ==
    LET self == tasks[t]
        existing == widget_windows[self.arg[1].id]
    IN  /\ InCreate(self) /\ self.pc = "close"
        /\ windows' = IF existing /= 0 THEN HostClose(windows, existing, c) ELSE windows
        /\ tasks' = [tasks EXCEPT ![t] =
                        [self EXCEPT !.pc = "html",
                                     !.close = IF existing /= 0 THEN c ELSE "none"]]
        /\ UNCHANGED <<widgets_file, profiles_file, dependencies_file, html_files,
                       widget_windows, ret, locks, system>>

\* The document is rendered and written (lines 184-237); an error returns
\* and drops the guard.
create_html(t, out) ==
    LET self == tasks[t]
        id == self.arg[1].id
    IN  /\ InCreate(self) /\ self.pc = "html"
        /\ html_files' = IF out \in {"dir_err", "mkdir_err", "write_err"} THEN html_files
                         ELSE html_files \cup {id}
        /\ tasks' = [tasks EXCEPT ![t] =
                        IF out = "ok" THEN [self EXCEPT !.pc = "build"]
                        ELSE CreateReturned(self, FALSE, out, <<>>)]
        /\ locks' = IF out = "ok" THEN locks
                    ELSE [locks EXCEPT !.widget_windows = "free"]
        /\ UNCHANGED <<ret, widgets_file, profiles_file, dependencies_file,
                       windows, widget_windows, system>>

\* The URL is parsed and the host builds the window under the label
\* (lines 240-257); an error returns and drops the guard.
create_build(t, out) ==
    LET self == tasks[t]
        id == self.arg[1].id
        built == out = "ok" /\ ~LabelInUse(windows, WindowLabel(self.arg[1]))
        window == [id |-> id, label |-> WindowLabel(self.arg[1]), open |-> TRUE]
    IN  /\ InCreate(self) /\ self.pc = "build"
        /\ built => Len(windows) < MaxWindows
        /\ windows' = IF built THEN Append(windows, window) ELSE windows
        /\ tasks' = [tasks EXCEPT ![t] =
                        IF built THEN [self EXCEPT !.pc = "insert",
                                                   !.built = Len(windows) + 1]
                        ELSE CreateReturned(self, FALSE, out, <<>>)]
        /\ locks' = IF built THEN locks
                    ELSE [locks EXCEPT !.widget_windows = "free"]
        /\ UNCHANGED <<ret, widgets_file, profiles_file, dependencies_file, html_files,
                       widget_windows, system>>

\* windows.insert(widget.id.clone(), window); Ok(widget.id): the guard is
\* dropped on return.
create_insert(t) ==
    LET self == tasks[t]
        id == self.arg[1].id
    IN  /\ InCreate(self) /\ self.pc = "insert"
        /\ widget_windows' = [widget_windows EXCEPT ![id] = self.built]
        /\ tasks' = [tasks EXCEPT ![t] = CreateReturned(self, TRUE, "", <<id>>)]
        /\ locks' = [locks EXCEPT !.widget_windows = "free"]
        /\ UNCHANGED <<ret, widgets_file, profiles_file, dependencies_file, html_files,
                       windows, system>>

\* close_widget_window: state.widget_windows.lock().await (line 267).
close_widget_window_lock(t) ==
    /\ tasks[t].cmd = "close_widget_window" /\ tasks[t].pc = "lock"
    /\ locks.widget_windows = "free"
    /\ locks' = [locks EXCEPT !.widget_windows = t]
    /\ tasks' = [tasks EXCEPT ![t].pc = "remove"]
    /\ UNCHANGED <<widgets_file, profiles_file, dependencies_file, html_files,
                   windows, widget_windows, ret, system>>

\* if let Some(window) = windows.remove(&widget_id) { window.close()..? }
\* Ok(()): the guard is dropped on either return.
close_widget_window_remove(t, c) ==
    LET self == tasks[t]
        id == self.arg[1]
        existing == widget_windows[id]
    IN  /\ self.cmd = "close_widget_window" /\ self.pc = "remove"
        /\ widget_windows' = [widget_windows EXCEPT ![id] = 0]
        /\ windows' = IF existing /= 0 THEN HostClose(windows, existing, c) ELSE windows
        /\ tasks' = [tasks EXCEPT ![t] =
                        Returned([self EXCEPT !.close = IF existing /= 0 THEN c ELSE "none"],
                                 existing = 0 \/ c = "ok",
                                 IF existing = 0 \/ c = "ok" THEN "" ELSE "close", <<>>)]
        /\ locks' = [locks EXCEPT !.widget_windows = "free"]
        /\ UNCHANGED <<ret, widgets_file, profiles_file, dependencies_file, html_files,
                       system>>

\* delete_widget up to the write of the file (lines 143-161); an error
\* returns before the mutex is asked for.
delete_widget_rewrite(t, io) ==
    LET self == tasks[t]
        r == ReadStore(widgets_file, io, "widgets")
        widgets == Retain(r.items, self.arg[1])
        ok == r.ok /\ io \notin WriteErrs
    IN  /\ self.cmd = "delete_widget" /\ self.pc = "rewrite"
        /\ widgets_file' = IF r.ok
                           THEN WriteStore(widgets_file, WidgetsToJson(widgets), io)
                           ELSE widgets_file
        /\ tasks' = [tasks EXCEPT ![t] =
                        IF ok THEN [self EXCEPT !.pc = "lock"]
                        ELSE Returned(self, FALSE, io, <<>>)]
        /\ UNCHANGED <<ret, profiles_file, dependencies_file, html_files,
                       windows, widget_windows, locks, system>>

\* delete_widget: state.widget_windows.lock().await (line 166).
delete_widget_lock(t) ==
    /\ tasks[t].cmd = "delete_widget" /\ tasks[t].pc = "lock"
    /\ locks.widget_windows = "free"
    /\ locks' = [locks EXCEPT !.widget_windows = t]
    /\ tasks' = [tasks EXCEPT ![t].pc = "close"]
    /\ UNCHANGED <<widgets_file, profiles_file, dependencies_file, html_files,
                   windows, widget_windows, ret, system>>

\* delete_widget_close that returns with the mutex still taken (the guard
\* is leaked).
delete_widget_close_keep_lock(t, c) ==
    LET self == tasks[t]
        existing == widget_windows[self.arg[1]]
    IN  /\ self.cmd = "delete_widget" /\ self.pc = "close"
        /\ windows' = IF existing /= 0 THEN HostClose(windows, existing, c) ELSE windows
        /\ tasks' = [tasks EXCEPT ![t] =
                        Returned([self EXCEPT !.close = IF existing /= 0 THEN c ELSE "none"],
                                 TRUE, "", <<>>)]
        /\ UNCHANGED <<ret, widgets_file, profiles_file, dependencies_file, html_files,
                       widget_windows, locks, system>>

\* if let Some(window) = windows.get(&widget_id) { let _ = window.close(); }
\* Ok(()): the guard is dropped on return.
delete_widget_close(t, c) ==
    LET self == tasks[t]
        existing == widget_windows[self.arg[1]]
    IN  /\ self.cmd = "delete_widget" /\ self.pc = "close"
        /\ windows' = IF existing /= 0 THEN HostClose(windows, existing, c) ELSE windows
        /\ tasks' = [tasks EXCEPT ![t] =
                        Returned([self EXCEPT !.close = IF existing /= 0 THEN c ELSE "none"],
                                 TRUE, "", <<>>)]
        /\ locks' = [locks EXCEPT !.widget_windows = "free"]
        /\ UNCHANGED <<ret, widgets_file, profiles_file, dependencies_file, html_files,
                       widget_windows, system>>

\* let widgets = get_widgets().await?: the autostart widgets are the ones
\* the loop will go through.
launch_load(t, io) ==
    LET self == tasks[t]
        loaded == ReadStore(widgets_file, io, "widgets")
        auto == SelectSeq(loaded.items, LAMBDA w : w.autoStart)
    IN  /\ self.cmd = "launch_autostart_widgets" /\ self.pc = "load"
        /\ tasks' = [tasks EXCEPT ![t] =
                        IF loaded.ok THEN [self EXCEPT !.pc = "next", !.local = auto]
                        ELSE Returned(self, FALSE, io, <<>>)]
        /\ UNCHANGED <<ret, widgets_file, profiles_file, dependencies_file, html_files,
                       windows, widget_windows, locks, system>>

\* The head of the loop: create_widget_window(widget.clone(), ..).await for
\* the next autostart widget, Ok(()) after the last one.  The launcher
\* itself takes no mutex.
launch_next(t) ==
    LET self == tasks[t]
    IN  /\ self.cmd = "launch_autostart_widgets" /\ self.pc = "next"
        /\ tasks' = [tasks EXCEPT ![t] =
                        IF self.local = <<>> THEN Returned(self, TRUE, "", <<>>)
                        ELSE [self EXCEPT !.pc = "lock", !.arg = <<Head(self.local)>>,
                                          !.local = Tail(self.local),
                                          !.built = 0, !.close = "none"]]
        /\ UNCHANGED <<ret, widgets_file, profiles_file, dependencies_file, html_files,
                       windows, widget_windows, locks, system>>

------------------------------------------------------------------------------
(* Telemetry sampler                                                        *)

\* The types run() hands to Builder::manage: AppState and nothing else.
ManagedTypes == {"AppState"}

\* The T of the tauri::State<'_, T> parameter of get_system_info.
SystemStateType == "Arc<Mutex<System>>"

\* What tauri does with an invocation whose State<T> parameter names a type
\* that is not managed: it rejects the invocation, or (older releases) the
\* handler panics; the body of the command does not run in either case.
UnmanagedOutcomes == {"state_not_managed_rejected", "state_not_managed_panic"}

\* u64 values are kept to WordBits bits.
WordBits == 6
Modulus == 2^WordBits

\* total - available on u64: with overflow checks (debug profile) a negative
\* difference panics, without them (release profile) it wraps.
OverflowChecks == {TRUE, FALSE}
U64Sub(a, b, checks) ==
    IF b <= a THEN [panic |-> FALSE, value |-> a - b]
    ELSE IF checks THEN [panic |-> TRUE, value |-> 0]
    ELSE [panic |-> FALSE, value |-> (a - b + Modulus) % Modulus]

\* (part as f32 / whole as f32) * 100.0 guarded by whole > 0, in whole
\* per cent.
Percent(part, whole) == IF whole > 0 THEN (part * 100) \div whole ELSE 0

\* label.to_lowercase() contains "cpu", "core" or "package", on the labels
\* of Readings.
CpuLabel(label) == label \in {"CPU Die", "coretemp Core 0", "Package id 0"}

\* What the probe, Disks and Components report: a machine with one disk and a
\* CPU sensor behind another sensor, one with no memory figure, no disk and
\* no CPU sensor, one whose first disk reports no space, and one whose file
\* system reports more space available than it has in total.
Readings ==
    {[cpu_usage |-> 25, total_memory |-> 16, used_memory |-> 4,
      disks |-> <<[total |-> 40, available |-> 10], [total |-> 8, available |-> 8]>>,
      components |-> <<[label |-> "nvme", temperature |-> 30],
                       [label |-> "coretemp Core 0", temperature |-> 50],
                       [label |-> "CPU Die", temperature |-> 60]>>],
     [cpu_usage |-> 0, total_memory |-> 0, used_memory |-> 0,
      disks |-> <<>>,
      components |-> <<[label |-> "acpitz", temperature |-> 40]>>],
     [cpu_usage |-> 100, total_memory |-> 16, used_memory |-> 16,
      disks |-> <<[total |-> 0, available |-> 0]>>,
      components |-> <<>>],
     [cpu_usage |-> 50, total_memory |-> 8, used_memory |-> 2,
      disks |-> <<[total |-> 10, available |-> 12]>>,
      components |-> <<[label |-> "Package id 0", temperature |-> 45]>>]}

\* components.list().iter().find(..).map(|c| c.temperature()): the first
\* matching component from the i-th on, <<>> for None.
RECURSIVE FindCpuTemperature(_, _)
FindCpuTemperature(components, i) ==
    IF i > Len(components) THEN <<>>
    ELSE IF CpuLabel(components[i].label) THEN <<components[i].temperature>>
    ELSE FindCpuTemperature(components, i + 1)

\* Lines 532-580: the figures read after the second refresh.
SystemInfoOf(reading, checks) ==
    LET total == IF reading.disks = <<>> THEN 0 ELSE reading.disks[1].total
        available == IF reading.disks = <<>> THEN 0 ELSE reading.disks[1].available
        used == U64Sub(total, available, checks)
    IN  [panic |-> used.panic,
         info |-> [cpuUsage |-> reading.cpu_usage,
                   memoryUsage |-> Percent(reading.used_memory, reading.total_memory),
                   memoryTotal |-> reading.total_memory,
                   memoryUsed |-> reading.used_memory,
                   diskUsage |-> Percent(used.value, total),
                   diskTotal |-> total,
                   diskUsed |-> used.value,
                   cpuTemperature |-> FindCpuTemperature(reading.components, 1)]]

\* One step of an invocation of get_system_info.  At "state" tauri resolves
\* the State parameter against what run() manages; the positions after it
\* are the body: system.lock().await, refresh_all(), sleep(100 ms),
\* refresh_all(), then the figures are read and the guard is dropped.
get_system_info(t, how, reading, checks) ==
    LET self == tasks[t]
        stepped == [self EXCEPT !.steps = Append(self.steps, self.pc)]
        sample == SystemInfoOf(reading, checks)
    IN  /\ self.cmd = "get_system_info" /\ InFlight(self)
        /\ IF self.pc = "state"
           THEN /\ tasks' = [tasks EXCEPT ![t] =
                                IF SystemStateType \in ManagedTypes
                                THEN [self EXCEPT !.pc = "lock"]
                                ELSE Returned(self, FALSE, how, <<>>)]
                /\ UNCHANGED <<locks, system>>
           ELSE IF self.pc = "lock"
           THEN /\ locks.system = "free"
                /\ locks' = [locks EXCEPT !.system = t]
                /\ tasks' = [tasks EXCEPT ![t].pc = "refresh1"]
                /\ UNCHANGED system
           ELSE IF self.pc \in {"refresh1", "refresh2"}
           THEN /\ system' = [system EXCEPT !.refreshes = Append(@, t)]
                /\ tasks' = [tasks EXCEPT ![t] =
                                [stepped EXCEPT !.pc = IF self.pc = "refresh1"
                                                       THEN "sleep" ELSE "read"]]
                /\ UNCHANGED locks
           ELSE IF self.pc = "sleep"
           THEN /\ tasks' = [tasks EXCEPT ![t] = [stepped EXCEPT !.pc = "refresh2"]]
                /\ UNCHANGED <<locks, system>>
           ELSE /\ tasks' = [tasks EXCEPT ![t] =
                                Returned(stepped, ~sample.panic,
                                         IF sample.panic THEN "panic" ELSE "",
                                         IF sample.panic THEN <<>> ELSE <<sample.info>>)]
                /\ locks' = [locks EXCEPT !.system = "free"]
                /\ UNCHANGED system
        /\ UNCHANGED <<ret, widgets_file, profiles_file, dependencies_file, html_files,
                       windows, widget_windows>>

------------------------------------------------------------------------------
(* Specifications                                                           *)

\* run(): AppState is managed with an empty window map, both mutexes free
\* and a probe that has not refreshed; nothing has run yet.
InitApp ==
    /\ html_files = {}
    /\ windows = <<>>
    /\ widget_windows = [id \in WidgetIds |-> 0]
    /\ ret = Ret("run", TRUE, "", <<>>, <<>>, "none", 0)
    /\ tasks = [t \in Tasks |-> IdleTask]
    /\ locks = [widget_windows |-> "free", system |-> "free"]
    /\ system = [refreshes |-> <<>>]

\* A fresh installation, or one that holds a widgets.json of an older version.
Init ==
    /\ widgets_file \in {AbsentFile, LegacyWidgetsFile}
    /\ profiles_file = AbsentFile
    /\ dependencies_file = AbsentFile
    /\ InitApp

\* The record-store commands.
Next ==
    \/ \E io \in {"ok", "dir_err", "read_err"} : get_widgets(io)
    \/ \E widget \in WidgetInputs, io \in IoOutcomes : save_widget(widget, io)
    \/ \E id \in WidgetIds, io \in IoOutcomes, c \in CloseOutcomes : delete_widget(id, io, c)
    \/ \E io \in {"ok", "dir_err", "read_err"} : get_profiles(io)
    \/ \E profile \in ProfileInputs, io \in IoOutcomes : save_profile(profile, io)
    \/ \E id \in ProfileIds, io \in IoOutcomes : delete_profile(id, io)
    \/ \E profile \in ProfileInputs, io \in LoadOutcomes : load_profile(profile, io)
    \/ \E io \in {"ok", "dir_err", "read_err"} : get_dependencies(io)
    \/ \E dependency \in DependencyInputs, io \in IoOutcomes : add_dependency(dependency, io)
    \/ \E id \in DepIds, io \in IoOutcomes : remove_dependency(id, io)

Spec == Init /\ [][Next]_vars

\* The application starts on the widgets.json an earlier session left; ids
\* may repeat in it (load_profile stores what it is given).
StoredWidgets == <<Widget("w1", "a", TRUE), Widget("w2", "a", TRUE), Widget("w1", "b", FALSE)>>

InitWindows ==
    /\ widgets_file \in {AbsentFile, LegacyWidgetsFile,
                         ArrayFile(WidgetsToJson(StoredWidgets))}
    /\ profiles_file = AbsentFile
    /\ dependencies_file = AbsentFile
    /\ InitApp

\* The window commands.
NextWindows ==
    \/ \E id \in WidgetIds, io \in IoOutcomes, c \in CloseOutcomes : delete_widget(id, io, c)
    \/ \E widget \in WidgetInputs, out \in CreateOutcomes, c \in CloseOutcomes :
            create_widget_window(widget, out, c)
    \/ \E id \in WidgetIds, c \in CloseOutcomes : close_widget_window(id, c)
    \/ \E io \in {"ok", "dir_err", "read_err"} : launch_autostart_widgets(io)

SpecWindows == InitWindows /\ [][NextWindows]_vars

\* Two invocations of the upsert commands of the widgets and dependencies
\* stores, side by side.
AddInputs == {Dependency("d1", "a", FALSE), Dependency("d2", "a", FALSE)}
TaskIo == {"ok", "dir_err", "read_err"}
TaskWriteIo == {"ok", "write_err", "write_partial"}

NextStoreTasks ==
    \/ \E t \in Tasks, widget \in CreateInputs : invoke(t, "save_widget", <<widget>>)
    \/ \E t \in Tasks, dependency \in AddInputs :
            invoke(t, "add_dependency", <<dependency>>)
    \/ \E t \in Tasks, io \in TaskIo : save_widget_read(t, io)
    \/ \E t \in Tasks, io \in TaskWriteIo : save_widget_write(t, io)
    \/ \E t \in Tasks, io \in TaskIo : add_dependency_read(t, io)
    \/ \E t \in Tasks, io \in TaskWriteIo : add_dependency_write(t, io)

SpecStoreTasks == Init /\ [][NextStoreTasks]_vars

\* Two invocations of create_widget_window and get_system_info, side by
\* side, on a fresh installation.
NextWindowTasks ==
    \/ \E t \in Tasks, widget \in CreateInputs :
            invoke(t, "create_widget_window", <<widget>>)
    \/ \E t \in Tasks : invoke(t, "get_system_info", <<>>)
    \/ \E t \in Tasks : create_lock(t)
    \/ \E t \in Tasks, c \in CloseOutcomes : create_close(t, c)
    \/ \E t \in Tasks, out \in {"ok", "dir_err", "mkdir_err", "write_err", "write_partial"} :
            create_html(t, out)
    \/ \E t \in Tasks, out \in {"ok", "url_err", "build_err"} : create_build(t, out)
    \/ \E t \in Tasks : create_insert(t)
    \/ \E t \in Tasks, how \in UnmanagedOutcomes, reading \in Readings,
          checks \in OverflowChecks : get_system_info(t, how, reading, checks)

InitWindowTasks ==
    /\ widgets_file = AbsentFile
    /\ profiles_file = AbsentFile
    /\ dependencies_file = AbsentFile
    /\ InitApp

SpecWindowTasks == InitWindowTasks /\ [][NextWindowTasks]_vars

\* The commands that take a mutex, on the widgets.json an earlier session
\* left.
InitLocks ==
    /\ widgets_file = ArrayFile(WidgetsToJson(StoredWidgets))
    /\ profiles_file = AbsentFile
    /\ dependencies_file = AbsentFile
    /\ InitApp

\* What an invocation does once the mutex it asks for is free.
Acquire(t) ==
    \/ create_lock(t)
    \/ close_widget_window_lock(t)
    \/ delete_widget_lock(t)

\* Every other step of an invocation.
Step(t) ==
    \/ \E c \in CloseOutcomes : create_close(t, c)
    \/ \E out \in {"ok", "write_err"} : create_html(t, out)
    \/ \E out \in {"ok", "build_err"} : create_build(t, out)
    \/ create_insert(t)
    \/ \E c \in CloseOutcomes : close_widget_window_remove(t, c)
    \/ \E io \in {"ok", "write_err"} : delete_widget_rewrite(t, io)
    \/ \E c \in CloseOutcomes : delete_widget_close(t, c)
    \/ \E io \in {"ok", "read_err"} : launch_load(t, io)
    \/ launch_next(t)
    \/ \E how \in UnmanagedOutcomes, reading \in Readings, checks \in OverflowChecks :
            get_system_info(t, how, reading, checks)

\* Each task runs one invocation: every pair of these commands side by
\* side, in every interleaving of their steps.
NextLocks ==
    \/ \E t \in Tasks, widget \in CreateInputs :
            tasks[t].pc = "idle" /\ invoke(t, "create_widget_window", <<widget>>)
    \/ \E t \in Tasks, id \in WidgetIds :
            tasks[t].pc = "idle" /\ invoke(t, "close_widget_window", <<id>>)
    \/ \E t \in Tasks, id \in WidgetIds :
            tasks[t].pc = "idle" /\ invoke(t, "delete_widget", <<id>>)
    \/ \E t \in Tasks :
            tasks[t].pc = "idle" /\ invoke(t, "launch_autostart_widgets", <<>>)
    \/ \E t \in Tasks :
            tasks[t].pc = "idle" /\ invoke(t, "get_system_info", <<>>)
    \/ \E t \in Tasks : Acquire(t)
    \/ \E t \in Tasks : Step(t)

\* The runtime keeps polling every task that can go on (weak fairness of
\* its steps), and the tokio mutex hands the lock to its waiters in the
\* order they asked (strong fairness of the acquisition).
FairLocks == \A t \in Tasks : WF_vars(Step(t)) /\ SF_vars(Acquire(t))

SpecLocks == InitLocks /\ [][NextLocks]_vars /\ FairLocks

------------------------------------------------------------------------------
(* Properties of the record store                                           *)

\* What the load command of a store returns on a file when no I/O step fails.
LoadWidgets(file) == ReadStore(file, "ok", "widgets")
LoadProfiles(file) == ReadStore(file, "ok", "profiles")
LoadDependencies(file) == ReadStore(file, "ok", "dependencies")

CountId(items, id) == Cardinality({i \in 1..Len(items) : items[i].id = id})
HasId(items, id) == \E i \in 1..Len(items) : items[i].id = id

\* items holds exactly one item with x's id, and it is x.
HoldsOnce(items, x) ==
    /\ CountId(items, x.id) = 1
    /\ \A i \in 1..Len(items) : items[i].id = x.id => items[i] = x

\* C1 as stated: after every successful upsert of X (save_widget,
\* save_profile, add_dependency) the load of that store succeeds and returns
\* exactly one item with X.id, equal to X.
C1_RoundTripAsStated ==
    /\ (ret.cmd = "save_widget" /\ ret.ok) =>
            /\ LoadWidgets(widgets_file).ok
            /\ HoldsOnce(LoadWidgets(widgets_file).items, ret.arg[1])
    /\ (ret.cmd = "save_profile" /\ ret.ok) =>
            /\ LoadProfiles(profiles_file).ok
            /\ HoldsOnce(LoadProfiles(profiles_file).items, ret.arg[1])
    /\ (ret.cmd = "add_dependency" /\ ret.ok) =>
            /\ LoadDependencies(dependencies_file).ok
            /\ HoldsOnce(LoadDependencies(dependencies_file).items, ret.arg[1])

\* One successful upsert of x that took the store from before to after: x is
\* loaded back; the number of items with x.id stays what it was, or becomes 1
\* when there was none (a replacement, never a duplicate); and when the store
\* held at most one item with x.id, it now holds exactly one, equal to x.
UpsertRoundTrip(before, after, x) ==
    /\ after.ok
    /\ \E i \in 1..Len(after.items) : after.items[i] = x
    /\ CountId(after.items, x.id) =
            IF HasId(before.items, x.id) THEN CountId(before.items, x.id) ELSE 1
    /\ HasId(before.items, x.id) => Len(after.items) = Len(before.items)
    /\ CountId(before.items, x.id) <= 1 => HoldsOnce(after.items, x)

C1_Step ==
    /\ (ret'.cmd = "save_widget" /\ ret'.ok) =>
            UpsertRoundTrip(LoadWidgets(widgets_file), LoadWidgets(widgets_file'),
                            ret'.arg[1])
    /\ (ret'.cmd = "save_profile" /\ ret'.ok) =>
            UpsertRoundTrip(LoadProfiles(profiles_file), LoadProfiles(profiles_file'),
                            ret'.arg[1])
    /\ (ret'.cmd = "add_dependency" /\ ret'.ok) =>
            UpsertRoundTrip(LoadDependencies(dependencies_file),
                            LoadDependencies(dependencies_file'), ret'.arg[1])

\* C1, amended: a successful upsert of X followed by a load returns a
\* sequence that contains X; it contains exactly one item with X.id, equal to
\* X, when the store held at most one item with that id before the upsert;
\* an upsert with an id that is already stored replaces an item and adds none.
C1_RoundTrip == [][C1_Step]_vars

\* A save_widget that replaced the first of two stored widgets.
C1_Witness ==
    /\ ret.cmd = "save_widget" /\ ret.ok /\ ret.n = 2
    /\ Len(LoadWidgets(widgets_file).items) = 2
    /\ LoadWidgets(widgets_file).items[1] = ret.arg[1]
    /\ HoldsOnce(LoadWidgets(widgets_file).items, ret.arg[1])

\* C8: after load_profile(P) returned success, get_widgets returns exactly
\* P.widgets and get_dependencies exactly P.dependencies, in P's order,
\* whatever the two stores held before.
C8_LoadProfileOverwrites ==
    (ret.cmd = "load_profile" /\ ret.ok) =>
        /\ LoadWidgets(widgets_file) = [ok |-> TRUE, items |-> ret.arg[1].widgets]
        /\ LoadDependencies(dependencies_file) =
                [ok |-> TRUE, items |-> ret.arg[1].dependencies]

\* A profile of two widgets and no dependency has been loaded.
C8_Witness ==
    /\ ret.cmd = "load_profile" /\ ret.ok
    /\ Len(ret.arg[1].widgets) = 2
    /\ ret.arg[1].dependencies = <<>>
    /\ Len(LoadWidgets(widgets_file).items) = 2
    /\ dependencies_file = ArrayFile(<<>>)

C9_Step ==
    /\ (widgets_file.kind = "absent" /\ ret'.cmd = "get_widgets") =>
            \A io \in IoOutcomes \ {"dir_err"} :
                get_widgets(io) => (ret'.ok /\ ret'.val = <<>>)
    /\ (profiles_file.kind = "absent" /\ ret'.cmd = "get_profiles") =>
            \A io \in IoOutcomes \ {"dir_err"} :
                get_profiles(io) => (ret'.ok /\ ret'.val = <<>>)
    /\ (dependencies_file.kind = "absent" /\ ret'.cmd = "get_dependencies") =>
            \A io \in IoOutcomes \ {"dir_err"} :
                get_dependencies(io) => (ret'.ok /\ ret'.val = <<>>)
    /\ (widgets_file.kind = "malformed"
            /\ ret'.cmd \in {"get_widgets", "save_widget", "delete_widget"}) =>
                (~ret'.ok /\ widgets_file' = widgets_file)
    /\ (profiles_file.kind = "malformed"
            /\ ret'.cmd \in {"get_profiles", "save_profile", "delete_profile"}) =>
                (~ret'.ok /\ profiles_file' = profiles_file)
    /\ (dependencies_file.kind = "malformed"
            /\ ret'.cmd \in {"get_dependencies", "add_dependency", "remove_dependency"}) =>
                (~ret'.ok /\ dependencies_file' = dependencies_file)

\* C9: for each record kind, the load command on an absent file returns
\* success with an empty sequence (once the configuration directories are
\* there); on a malformed file the load, upsert and delete commands return an
\* error and leave the file as it is.
C9_AbsentAndMalformed == [][C9_Step]_vars

\* get_profiles has failed on a malformed profiles.json, which is still there.
C9_Witness ==
    /\ profiles_file.kind = "malformed"
    /\ ret.cmd = "get_profiles" /\ ~ret.ok

\* A delete of id with no I/O failure on a readable store that does not hold
\* id: success, and the load returns what it returned before.
DeleteAbsent(before, after, id) ==
    (before.ok /\ ~HasId(before.items, id)) => (ret'.ok /\ after = before)

C10_Step ==
    /\ ret'.cmd = "delete_widget" =>
            \A c \in CloseOutcomes :
                delete_widget(ret'.id, "ok", c) =>
                    DeleteAbsent(LoadWidgets(widgets_file), LoadWidgets(widgets_file'),
                                 ret'.id)
    /\ ret'.cmd = "delete_profile" =>
            (delete_profile(ret'.id, "ok") =>
                DeleteAbsent(LoadProfiles(profiles_file), LoadProfiles(profiles_file'),
                             ret'.id))
    /\ ret'.cmd = "remove_dependency" =>
            (remove_dependency(ret'.id, "ok") =>
                DeleteAbsent(LoadDependencies(dependencies_file),
                             LoadDependencies(dependencies_file'), ret'.id))
    /\ (ret.cmd \in {"delete_widget", "delete_profile", "remove_dependency"}
            /\ ret.ok /\ ret'.cmd = ret.cmd /\ ret'.ok /\ ret'.id = ret.id) =>
                /\ widgets_file' = widgets_file
                /\ profiles_file' = profiles_file
                /\ dependencies_file' = dependencies_file

\* C10: delete_widget, delete_profile and remove_dependency with an id that
\* is not in the store return success and leave what the load returns
\* unchanged; a second successful delete of the same id right after the first
\* leaves the store file as the first left it.
C10_DeleteIdempotent == [][C10_Step]_vars

\* remove_dependency succeeded on a store of one or more dependencies and
\* removed none of them.
C10_Witness ==
    /\ ret.cmd = "remove_dependency" /\ ret.ok
    /\ ret.n >= 1
    /\ Len(LoadDependencies(dependencies_file).items) = ret.n

------------------------------------------------------------------------------
(* Properties of the window manager                                         *)

\* The open windows that were built for a widget id.
OpenWindows(wins, id) == {h \in 1..Len(wins) : wins[h].id = id /\ wins[h].open}

\* C2: for every widget id at most one window built by create_widget_window
\* is open, and the map holds at most one handle for the id, a handle of a
\* window built for that id.
C2_OneWindowPerWidget ==
    \A id \in WidgetIds :
        /\ Cardinality(OpenWindows(windows, id)) <= 1
        /\ widget_windows[id] \in 0..Len(windows)
        /\ widget_windows[id] /= 0 => windows[widget_windows[id]].id = id

\* Two windows have been built for one widget id and one of them is open.
C2_Witness ==
    \E id \in WidgetIds :
        /\ Cardinality({h \in 1..Len(windows) : windows[h].id = id}) >= 2
        /\ Cardinality(OpenWindows(windows, id)) = 1

C3_Step ==
    (/\ ret.cmd = "create_widget_window" /\ ret.ok
     /\ ret'.cmd = "create_widget_window" /\ ret'.ok
     /\ ret'.id = ret.id) =>
        LET id == ret.id
            first == widget_windows[id]
            second == widget_windows'[id]
        IN  /\ first /= 0 /\ windows[first].open
            /\ ~windows'[first].open
            /\ Len(windows') = Len(windows) + 1
            /\ second = Len(windows')
            /\ windows'[second].open
            /\ OpenWindows(windows', id) = {second}
            /\ ret.val = <<id>> /\ ret'.val = <<id>>

\* C3: when two create_widget_window calls for one widget id succeed one
\* after the other, the window of the first call has been closed, the map
\* entry of the id is the handle the second call built, that window is the
\* one open window of the id, and each call returned the widget id.
C3_CreateTwice == [][C3_Step]_vars

\* A create_widget_window that closed the tracked window of its id and
\* registered the new one.
C3_Witness ==
    /\ ret.cmd = "create_widget_window" /\ ret.ok /\ ret.close = "ok"
    /\ widget_windows[ret.id] = Len(windows)
    /\ \E h \in 1..(Len(windows) - 1) : windows[h].id = ret.id /\ ~windows[h].open

\* C4 as stated: every widget id in the map refers to a window that is open.
C4_HandlesAreOpen ==
    \A id \in WidgetIds :
        widget_windows[id] /= 0 => windows[widget_windows[id]].open

\* The widgets left after delete_widget(id): no item with id, the rest in order.
WidgetsDeleted(id) ==
    /\ LoadWidgets(widgets_file').ok
    /\ LoadWidgets(widgets_file').items = Retain(LoadWidgets(widgets_file).items, id)
    /\ ~HasId(LoadWidgets(widgets_file').items, id)
    /\ \A i \in 1..Len(LoadWidgets(widgets_file).items) :
            LoadWidgets(widgets_file).items[i].id /= id =>
                \E k \in 1..Len(LoadWidgets(widgets_file').items) :
                    LoadWidgets(widgets_file').items[k] = LoadWidgets(widgets_file).items[i]

C5_StepAsStated ==
    (ret'.cmd = "delete_widget" /\ ret'.ok) =>
        /\ WidgetsDeleted(ret'.id)
        /\ widget_windows[ret'.id] /= 0 => ~windows'[widget_windows[ret'.id]].open

\* C5 as stated: after delete_widget(id) returned success the stored widgets
\* are the former ones without those of that id, and the window tracked for
\* the id is closed.
C5_DeleteWidgetAsStated == [][C5_StepAsStated]_vars

C5_Step ==
    (ret'.cmd = "delete_widget" /\ ret'.ok) =>
        LET handle == widget_windows[ret'.id]
        IN  /\ WidgetsDeleted(ret'.id)
            /\ widget_windows' = widget_windows
            /\ handle = 0 => (windows' = windows /\ ret'.close = "none")
            /\ handle /= 0 =>
                    /\ ret'.close \in CloseOutcomes
                    /\ ret'.close = "ok" => ~windows'[handle].open
                    /\ ret'.close = "err" => windows' = windows

\* C5, amended: after delete_widget(id) returned success the stored widgets
\* are the former ones without those of that id, in their order, and the
\* host has been asked to close the window tracked for the id: that window
\* is closed unless the close request failed, a failure delete_widget
\* discards, leaving the window as it was.
C5_DeleteWidget == [][C5_Step]_vars

\* delete_widget closed the tracked window of its id and left a widget of
\* another id in the store.
C5_Witness ==
    /\ ret.cmd = "delete_widget" /\ ret.ok /\ ret.close = "ok"
    /\ widget_windows[ret.id] /= 0
    /\ ~windows[widget_windows[ret.id]].open
    /\ ret.n = 3
    /\ Len(LoadWidgets(widgets_file).items) = 1

\* What close_widget_window(id) leaves alone: the other map entries and the
\* windows other than the one of handle.
OthersUntouched(id, handle) ==
    /\ \A other \in WidgetIds \ {id} : widget_windows'[other] = widget_windows[other]
    /\ Len(windows') = Len(windows)
    /\ \A h \in 1..Len(windows) : h /= handle => windows'[h] = windows[h]

C6_StepAsStated ==
    (ret'.cmd = "close_widget_window") =>
        LET handle == widget_windows[ret'.id]
        IN  /\ handle /= 0 => (widget_windows'[ret'.id] = 0 /\ ~windows'[handle].open)
            /\ handle = 0 =>
                    (ret'.ok /\ widget_windows' = widget_windows /\ windows' = windows)
            /\ OthersUntouched(ret'.id, handle)

\* C6 as stated: close_widget_window(id) removes a handle the map holds for
\* id and its window is closed; without a handle it returns success and
\* changes nothing; other entries are never changed.
C6_CloseWindowAsStated == [][C6_StepAsStated]_vars

C6_Step ==
    (ret'.cmd = "close_widget_window") =>
        LET handle == widget_windows[ret'.id]
        IN  /\ handle /= 0 =>
                    /\ widget_windows'[ret'.id] = 0
                    /\ ret'.ok = (ret'.close = "ok")
                    /\ ret'.ok => ~windows'[handle].open
                    /\ ~ret'.ok => windows' = windows
            /\ handle = 0 =>
                    (ret'.ok /\ widget_windows' = widget_windows /\ windows' = windows)
            /\ OthersUntouched(ret'.id, handle)

\* C6, amended: close_widget_window(id) removes a handle the map holds for
\* id and asks the host to close its window; it returns success when the
\* host closed the window, and an error when the host close failed, in which
\* case the entry is removed all the same and the window stays as it was.
\* Without a handle it returns success and changes nothing; other entries
\* are never changed.
C6_CloseWindow == [][C6_Step]_vars

\* close_widget_window failed: the entry is gone and the window is open.
C6_Witness ==
    /\ ret.cmd = "close_widget_window" /\ ~ret.ok /\ ret.close = "err"
    /\ widget_windows[ret.id] = 0
    /\ OpenWindows(windows, ret.id) /= {}

C7_Step ==
    (ret'.cmd = "create_widget_window" /\ ~ret'.ok) =>
        widget_windows' = widget_windows

\* C7: a create_widget_window that returns an error, at whichever step after
\* the close of the existing window it failed, leaves the window map exactly
\* as it was before the call.
C7_FailedCreateKeepsMap == [][C7_Step]_vars

\* create_widget_window closed the tracked window, then failed: the map
\* still holds the handle of the window it closed.
C7_Witness ==
    /\ ret.cmd = "create_widget_window" /\ ~ret.ok /\ ret.close = "ok"
    /\ widget_windows[ret.id] /= 0
    /\ ~windows[widget_windows[ret.id]].open

------------------------------------------------------------------------------
(* Properties of the autostart launcher                                     *)

Attempted(attempts) == [i \in 1..Len(attempts) |-> attempts[i].widget]
Opened(attempts) == SelectSeq(attempts, LAMBDA a : a.ok)

C11_Step ==
    ret'.cmd = "launch_autostart_widgets" =>
        /\ widgets_file' = widgets_file
        /\ ret'.ok =>
              /\ Attempted(ret'.val) =
                     SelectSeq(LoadWidgets(widgets_file).items, LAMBDA w : w.autoStart)
              /\ Len(windows') = Len(windows) + Len(Opened(ret'.val))
        /\ \A io \in {"ok", "dir_err", "read_err"} :
              launch_autostart_widgets(io) =>
                  ret'.ok = ReadStore(widgets_file, io, "widgets").ok

\* C11: launch_autostart_widgets calls create_widget_window exactly once, in
\* stored order, for every stored widget whose autoStart is true and for no
\* other widget; a failed open does not stop the later ones; and it returns
\* success exactly when loading the widgets succeeded, whatever the opens
\* answered.
C11_LaunchAttemptsAll == [][C11_Step]_vars

\* The launcher returned success after two attempts of which the first failed
\* and the second opened its window, over a store that also holds a widget
\* that is not autostart.
C11_Witness ==
    /\ ret.cmd = "launch_autostart_widgets" /\ ret.ok
    /\ Len(ret.val) = 2 /\ ~ret.val[1].ok /\ ret.val[2].ok
    /\ \E i \in 1..Len(LoadWidgets(widgets_file).items) :
            ~LoadWidgets(widgets_file).items[i].autoStart

------------------------------------------------------------------------------
(* Error handling of delete_widget                                          *)

C17_Step ==
    ret'.cmd = "delete_widget" =>
        /\ ~ret'.ok => (windows' = windows /\ ret'.close = "none")
        /\ \A c \in CloseOutcomes :
              delete_widget(ret'.id, "ok", c) =>
                  ret'.ok = (widgets_file.kind /= "malformed")
        /\ \A io \in WriteErrs, c \in CloseOutcomes :
              delete_widget(ret'.id, io, c) => ~ret'.ok

\* C17: delete_widget returns success whenever the widgets file was read,
\* filtered and rewritten, whether or not a window is tracked for the id and
\* whatever the host answers to the close; when the read, the parse or the
\* write fails it returns an error, asks for no close and leaves every
\* window as it was.
C17_DeleteBestEffort == [][C17_Step]_vars

\* delete_widget returned success although the host refused to close the
\* tracked window.
C17_Witness ==
    /\ ret.cmd = "delete_widget" /\ ret.ok /\ ret.close = "err"
    /\ widget_windows[ret.id] /= 0
    /\ windows[widget_windows[ret.id]].open

------------------------------------------------------------------------------
(* The upsert of the three collections                                      *)

DistinctIds(items) ==
    \A i, k \in 1..Len(items) : items[i].id = items[k].id => i = k

Matches(items, id) == {i \in 1..Len(items) : items[i].id = id}

\* after is before with x put over the first item of x's id, or with x
\* appended when no item has that id.
UpsertShape(before, after, x) ==
    /\ IF Matches(before, x.id) = {}
       THEN /\ Len(after) = Len(before) + 1
            /\ after[Len(after)] = x
            /\ \A i \in 1..Len(before) : after[i] = before[i]
       ELSE /\ Len(after) = Len(before)
            /\ \E p \in Matches(before, x.id) :
                  /\ \A k \in Matches(before, x.id) : p <= k
                  /\ after[p] = x
                  /\ \A i \in 1..Len(before) : i /= p => after[i] = before[i]
    /\ DistinctIds(before) => DistinctIds(after)

C18_Step ==
    /\ (ret'.cmd = "save_widget" /\ ret'.ok) =>
           UpsertShape(LoadWidgets(widgets_file).items,
                       LoadWidgets(widgets_file').items, ret'.arg[1])
    /\ (ret'.cmd = "save_profile" /\ ret'.ok) =>
           UpsertShape(LoadProfiles(profiles_file).items,
                       LoadProfiles(profiles_file').items, ret'.arg[1])
    /\ (ret'.cmd = "add_dependency" /\ ret'.ok) =>
           UpsertShape(LoadDependencies(dependencies_file).items,
                       LoadDependencies(dependencies_file').items, ret'.arg[1])

\* C18: a successful save_widget, save_profile or add_dependency stores the
\* collection it read with the item put over the first stored item of the
\* same id, at that position, or appended at the end when no stored item has
\* that id; every other item keeps its value and place, the length grows by
\* 0 on a replace and by 1 on an append, and pairwise distinct ids stay
\* pairwise distinct.
C18_UpsertInPlace == [][C18_Step]_vars

\* save_widget replaced the first of two stored widgets of the same id and
\* left the second one as it was.
C18_Witness ==
    /\ ret.cmd = "save_widget" /\ ret.ok /\ ret.n = 2
    /\ LET stored == LoadWidgets(widgets_file).items
       IN  /\ Len(stored) = 2
           /\ stored[1] = ret.arg[1]
           /\ stored[2].id = ret.id /\ stored[2] /= ret.arg[1]

------------------------------------------------------------------------------
(* A close the host refuses                                                 *)

C19_Step ==
    /\ ret'.cmd = "close_widget_window" =>
          /\ widget_windows'[ret'.id] = 0
          /\ ~ret'.ok =>
                /\ widget_windows[ret'.id] /= 0
                /\ ret'.close = "err"
                /\ windows' = windows
    /\ (ret'.cmd = "create_widget_window" /\ widget_windows[ret'.id] = 0) =>
          /\ ret'.close = "none"
          /\ \A h \in 1..Len(windows) : windows'[h] = windows[h]

\* C19: close_widget_window leaves no map entry for the id, also when the
\* host refuses the close: then it returns an error, the window is as it
\* was (open if it was open) and no longer tracked; and a
\* create_widget_window for an id without map entry asks for no close and
\* leaves every existing window as it is.
C19_FailedCloseUntracks == [][C19_Step]_vars

\* After a close the host refused, a create_widget_window for the same id
\* has run: the window is still open and untracked.
C19_Witness ==
    /\ ret.cmd = "create_widget_window" /\ ret.close = "none"
    /\ \E h \in OpenWindows(windows, ret.id) : widget_windows[ret.id] /= h

------------------------------------------------------------------------------
(* load_profile across its two stores                                       *)

\* The widgets file holds exactly the profile's widgets.
HoldsWidgetsOf(file, profile) ==
    LoadWidgets(file) = [ok |-> TRUE, items |-> profile.widgets]

C20_StepAsStated ==
    ret'.cmd = "load_profile" =>
        \A io \in {"write2_err", "write2_partial"} :
            load_profile(ret'.arg[1], io) =>
                /\ ~ret'.ok
                /\ HoldsWidgetsOf(widgets_file', ret'.arg[1])
                /\ dependencies_file' = dependencies_file

\* C20 as stated: when the dependencies write fails, load_profile returns an
\* error, the widgets store holds the profile's widgets and the
\* dependencies store still holds its previous content.
C20_LoadProfileAsStated == [][C20_StepAsStated]_vars

C20_Step ==
    ret'.cmd = "load_profile" =>
        /\ \A io \in {"write2_err", "write2_partial"} :
              load_profile(ret'.arg[1], io) =>
                  /\ ~ret'.ok
                  /\ HoldsWidgetsOf(widgets_file', ret'.arg[1])
                  /\ dependencies_file' \in {dependencies_file, MalformedFile}
                  /\ io = "write2_err" => dependencies_file' = dependencies_file
        /\ \A io \in WriteErrs \cup {"dir_err"} :
              load_profile(ret'.arg[1], io) =>
                  (~ret'.ok /\ dependencies_file' = dependencies_file)

\* C20: load_profile writes the widgets file first and the dependencies file
\* second, with no rollback: when the dependencies write fails it returns an
\* error while the widgets store already holds the profile's widgets, and
\* the dependencies store holds its previous content, or is left truncated
\* when the write failed after it had opened the file; when the widgets
\* write fails the dependencies file is not touched.
C20_LoadProfileNotAtomic == [][C20_Step]_vars

\* load_profile returned an error: the widgets store holds the profile's
\* widgets and the dependencies store holds dependencies that are not the
\* profile's.
C20_Witness ==
    /\ ret.cmd = "load_profile" /\ ~ret.ok
    /\ HoldsWidgetsOf(widgets_file, ret.arg[1])
    /\ ret.arg[1].widgets /= <<>>
    /\ dependencies_file.kind = "array"
    /\ LoadDependencies(dependencies_file).items /= <<>>
    /\ LoadDependencies(dependencies_file).items /= ret.arg[1].dependencies

------------------------------------------------------------------------------
(* Concurrent upserts                                                       *)

\* Task t returns Ok from the write step of cmd in this step.
Wrote(t, cmd) ==
    /\ tasks[t].cmd = cmd /\ tasks[t].pc = "write"
    /\ tasks'[t].pc = "done" /\ tasks'[t].ok

\* Every other invocation of cmd that returned Ok with another id which t
\* had not read is missing from after.
OthersLost(t, cmd, after) ==
    \A u \in Tasks \ {t} :
        ( /\ tasks[u].cmd = cmd /\ tasks[u].pc = "done" /\ tasks[u].ok
          /\ tasks[u].arg[1].id /= tasks[t].arg[1].id
          /\ ~HasId(tasks[t].local, tasks[u].arg[1].id) )
        => ~HasId(after, tasks[u].arg[1].id)

C12_Step ==
    \A t \in Tasks :
        /\ Wrote(t, "save_widget") =>
              /\ UpsertShape(tasks[t].local, LoadWidgets(widgets_file').items,
                             tasks[t].arg[1])
              /\ OthersLost(t, "save_widget", LoadWidgets(widgets_file').items)
        /\ Wrote(t, "add_dependency") =>
              /\ UpsertShape(tasks[t].local, LoadDependencies(dependencies_file').items,
                             tasks[t].arg[1])
              /\ OthersLost(t, "add_dependency",
                            LoadDependencies(dependencies_file').items)

\* C12: nothing orders the read and the write of one upsert against those of
\* another: a save_widget or add_dependency that returns success stores the
\* upsert into the collection it read, whatever was written since, so the
\* item of another invocation with a different id that returned success
\* after that read is no longer in the file.
C12_LostUpdate == [][C12_Step]_vars

\* Two overlapping save_widget invocations with different ids have both
\* returned success and the file holds the widget of only one of them.
C12_Witness ==
    /\ \A t \in Tasks :
          /\ tasks[t].cmd = "save_widget" /\ tasks[t].pc = "done"
          /\ tasks[t].ok /\ tasks[t].overlapped
    /\ tasks["t1"].arg[1].id /= tasks["t2"].arg[1].id
    /\ HasId(LoadWidgets(widgets_file).items, tasks["t2"].arg[1].id)
    /\ ~HasId(LoadWidgets(widgets_file).items, tasks["t1"].arg[1].id)
    /\ Len(LoadWidgets(widgets_file).items) = 1

------------------------------------------------------------------------------
(* Concurrent create_widget_window                                          *)

\* The positions of create_widget_window from the lookup of the existing
\* handle to the registration of the new one.
CreateSection == {"close", "html", "build", "insert"}

Creating(t) == tasks[t].cmd = "create_widget_window" /\ tasks[t].pc \in CreateSection

Created(t, id) ==
    /\ tasks[t].cmd = "create_widget_window" /\ tasks[t].pc = "done" /\ tasks[t].ok
    /\ tasks[t].arg[1].id = id

\* C13: an invocation of create_widget_window holds the mutex of the window
\* map at every position from the lookup to the registration, so no two
\* invocations are between lookup and registration at once; and after two
\* invocations for the same id have both returned success, exactly one of
\* the two windows they built is open and the map holds that one.
C13_CreateSerialized ==
    /\ \A t \in Tasks : Creating(t) => locks.widget_windows = t
    /\ \A t, u \in Tasks : (Creating(t) /\ Creating(u)) => t = u
    /\ \A id \in WidgetIds, t, u \in Tasks :
          (t /= u /\ Created(t, id) /\ Created(u, id)) =>
              /\ tasks[t].built /= tasks[u].built
              /\ windows[tasks[t].built].open /= windows[tasks[u].built].open
              /\ widget_windows[id] \in {tasks[t].built, tasks[u].built}
              /\ windows[widget_windows[id]].open

\* Two overlapping invocations for the same id have both returned success:
\* the window of t1 is closed, the window of t2 is open and tracked.
C13_Witness ==
    /\ \A t \in Tasks : tasks[t].overlapped
    /\ \E id \in WidgetIds :
          /\ Created("t1", id) /\ Created("t2", id)
          /\ ~windows[tasks["t1"].built].open
          /\ windows[tasks["t2"].built].open
          /\ widget_windows[id] = tasks["t2"].built

------------------------------------------------------------------------------
(* Telemetry                                                                *)

Sampled(t) == tasks[t].cmd = "get_system_info" /\ tasks[t].pc = "done"

\* C14: every get_system_info call that returned ran a first refresh, the
\* wait, a second refresh and the reading, in this order, and a call between
\* its first refresh and its reading holds the probe mutex.
C14_RefreshWaitRefresh ==
    \A t \in Tasks :
        /\ Sampled(t) => tasks[t].steps = <<"refresh1", "sleep", "refresh2", "read">>
        /\ (tasks[t].cmd = "get_system_info" /\ tasks[t].pc \in {"sleep", "refresh2", "read"})
              => locks.system = t

\* C15: every get_system_info call that returned did not panic and returned
\* a SystemInfo in which memoryUsage is 0 when memoryTotal is 0, diskUsage is
\* 0 when diskTotal is 0 and diskUsed did not wrap above diskTotal.
C15_SystemInfoReturned ==
    \A t \in Tasks :
        Sampled(t) =>
            /\ tasks[t].ok /\ Len(tasks[t].val) = 1
            /\ LET info == tasks[t].val[1]
               IN  /\ info.memoryTotal = 0 => info.memoryUsage = 0
                   /\ info.diskTotal = 0 => info.diskUsage = 0
                   /\ info.diskUsed <= info.diskTotal

\* C16: no get_system_info call fails because the state type it requests is
\* not managed: every call that returned went through its sampling body.
C16_ProbeStateManaged ==
    \A t \in Tasks :
        Sampled(t) => (tasks[t].err \notin UnmanagedOutcomes /\ tasks[t].steps /= <<>>)

------------------------------------------------------------------------------
(* The two mutexes                                                          *)

\* The positions at which a command holds the mutex of the window map, and
\* those at which it holds the mutex of the probe.
WindowSection(task) ==
    \/ InCreate(task) /\ task.pc \in CreateSection
    \/ task.cmd = "close_widget_window" /\ task.pc = "remove"
    \/ task.cmd = "delete_widget" /\ task.pc = "close"

SystemSection(task) ==
    task.cmd = "get_system_info" /\ task.pc \in {"refresh1", "sleep", "refresh2", "read"}

\* The task is at a lock().await of the window map.
AwaitsWindows(task) ==
    /\ task.pc = "lock"
    /\ InCreate(task) \/ task.cmd \in {"close_widget_window", "delete_widget"}

\* No task holds both mutexes; a mutex is held exactly by the task that is
\* between its lock() and its return, so no task asks for a mutex it holds
\* and no returned task keeps one; a task that waits for the window map
\* waits for a task that can take its next step, never for one that runs
\* get_system_info.
LockDiscipline ==
    \A t \in Tasks :
        /\ ~(locks.widget_windows = t /\ locks.system = t)
        /\ locks.widget_windows = t <=> WindowSection(tasks[t])
        /\ locks.system = t <=> SystemSection(tasks[t])
        /\ AwaitsWindows(tasks[t]) =>
              \/ ENABLED Acquire(t)
              \/ \E u \in Tasks \ {t} :
                    /\ locks.widget_windows = u
                    /\ tasks[u].cmd /= "get_system_info"
                    /\ ENABLED Step(u)

\* C21: no command holds the mutex of the window map and the mutex of the
\* probe at once and none asks for a mutex it holds (launch_autostart_widgets
\* holds the window map only inside one create_widget_window at a time); a
\* running get_system_info never keeps create_widget_window,
\* close_widget_window or delete_widget waiting; and under fair scheduling
\* every invoked command returns.
C21_DeadlockFree ==
    /\ []LockDiscipline
    /\ \A t \in Tasks : InFlight(tasks[t]) ~> (tasks[t].pc = "done")

\* launch_autostart_widgets and a delete_widget that ran while it was in
\* flight have both returned success, and delete_widget found a window the
\* launcher had registered.
C21_Witness ==
    /\ \A t \in Tasks : tasks[t].pc = "done" /\ tasks[t].ok /\ tasks[t].overlapped
    /\ tasks["t1"].cmd = "launch_autostart_widgets"
    /\ tasks["t2"].cmd = "delete_widget"
    /\ tasks["t2"].close /= "none"

====
